---- MODULE Spec2Model ----
(***************************************************************************)
(* Verification model of urllib3/multipart/encoder.py: the streaming       *)
(* multipart/form-data encoder (MultipartEncoder) and its supporting       *)
(* types Part, _CustomBytesIO and FileWrapper.                             *)
(*                                                                         *)
(* Python objects are records [kind, data, pos, total]:                    *)
(*   kind "bytes"          data = the bytes (integers 0..255)              *)
(*   kind "str"            data = the code points of the text              *)
(*   kind "tuple"          data = the items (each the data of a bytes)     *)
(*   kind "file"           an open binary file handle: data = the file's   *)
(*                         content, pos = tell()                           *)
(*   kind "BytesIO"        an io.BytesIO: data = getvalue(), pos = tell()  *)
(*   kind "CustomBytesIO"  a _CustomBytesIO, same fields                   *)
(*   kind "flaky_file"     such a handle whose next read() raises OSError  *)
(*                         (a failed system call); later reads succeed     *)
(*   kind "rawio"          a raw stream: read() and a fileno() that raises *)
(*                         io.UnsupportedOperation, no __len__, len or     *)
(*                         getvalue                                        *)
(*   kind "FileWrapper"    a FileWrapper: data/pos = those of self.fd,     *)
(*                         total = self._total_len, fd = the handle's kind *)
(*   kind "reader"         an object with read() but no __len__, len,      *)
(*                         fileno or getvalue                              *)
(* A FileWrapper holds its handle inline: a Part owns its body source.     *)
(*                                                                         *)
(* The model describes the classes once the module is loaded, that is with *)
(* annotations left unevaluated (Python 3.14); on earlier versions the     *)
(* annotation of _iter_fields (line 342) reads RequestField from the       *)
(* property "fields" of line 255 and the import itself fails.              *)
(*                                                                         *)
(* MultipartEncoder.__init__ stores the pre-encoded boundary as a 1-tuple  *)
(* (the trailing comma of line 219) and then writes it to the buffer, and  *)
(* io.BytesIO.write rejects a tuple: every construction raises TypeError.  *)
(* Spec is that construction.  The encoder's methods are modelled as       *)
(* operators on an encoder record; the claims about an encoder are stated  *)
(* with them.  AnySpec is the same construction over field sets that may   *)
(* hold failing or unsized body sources.  PartSpec is the direct use of    *)
(* Part and FileWrapper, and BufSpec that of _CustomBytesIO; they need no  *)
(* encoder.                                                                *)
(***************************************************************************)
EXTENDS Integers, Sequences, FiniteSets, TLC

\* ---------------------------------------------------------------- bounds
MaxParts == 2
MaxDirect == 1
MaxBody == 3
MaxSize == 3
MaxStore == 4
MaxReads == 3

\* ------------------------------------------------------- byte constants
CR == 13
LF == 10
DASH == 45
default_iter_size == 32768

CRLF == <<CR, LF>>

Min(a, b) == IF a < b THEN a ELSE b

Obj(kind, data, pos, total) ==
    [kind |-> kind, data |-> data, pos |-> pos, total |-> total]

Bytes(b) == Obj("bytes", b, 0, 0)
Str(s) == Obj("str", s, 0, 0)

\* ------------------------------------------------------------ encode_with
\* str.encode("utf-8") of one code point below 0x800
Utf8(c) == IF c < 128 THEN <<c>> ELSE <<192 + (c \div 64), 128 + (c % 64)>>

RECURSIVE str_encode(_)
str_encode(s) ==
    IF s = <<>> THEN <<>> ELSE Utf8(Head(s)) \o str_encode(Tail(s))

\* encode_with(string, encoding): bytes (and None) pass through, text is encoded
encode_with(string, encoding) ==
    IF string.kind = "bytes" \/ string.kind = "NoneType"
    THEN string
    ELSE Bytes(str_encode(string.data))

\* ------------------------------------------------------------- io.BytesIO
\* seek(offset, whence): whence 0 = start, 1 = current, 2 = end; a negative
\* result of a relative seek is clamped to 0
BytesIO_seek(b, offset, whence) ==
    LET base == IF whence = 0 THEN 0 ELSE IF whence = 1 THEN b.pos ELSE Len(b.data)
        p == base + offset
    IN [b EXCEPT !.pos = IF p < 0 THEN 0 ELSE p]

\* write(obj) at the current position: overwrites, extends, advances; an
\* argument that is not bytes-like raises TypeError and changes nothing
BytesIO_write(b, obj) ==
    IF obj.kind # "bytes"
    THEN [buf |-> b, ret |-> 0, exc |-> "TypeError"]
    ELSE LET v == obj.data
             pad == IF b.pos > Len(b.data)
                    THEN [i \in 1..(b.pos - Len(b.data)) |-> 0]
                    ELSE <<>>
             before == SubSeq(b.data, 1, Min(b.pos, Len(b.data))) \o pad
             after == SubSeq(b.data, b.pos + Len(v) + 1, Len(b.data))
         IN [buf |-> [b EXCEPT !.data = before \o v \o after,
                               !.pos = b.pos + Len(v)],
             ret |-> Len(v), exc |-> "none"]

\* read(size): size < 0 reads to the end; the position advances by what is read
BytesIO_read(b, size) ==
    LET avail == IF b.pos >= Len(b.data) THEN 0 ELSE Len(b.data) - b.pos
        n == IF size < 0 THEN avail ELSE Min(size, avail)
    IN [obj |-> [b EXCEPT !.pos = b.pos + n],
        ret |-> SubSeq(b.data, b.pos + 1, b.pos + n)]

\* truncate(): cut the storage at the current position
BytesIO_truncate(b) == [b EXCEPT !.data = SubSeq(b.data, 1, Min(b.pos, Len(b.data)))]

\* --------------------------------------------------------- _CustomBytesIO
\* _CustomBytesIO(buffer, encoding): str and bytes are encoded and stored
CustomBytesIO(buffer, encoding) ==
    Obj("CustomBytesIO", encode_with(buffer, encoding).data, 0, 0)

\* _get_end(): seek to the end, tell, seek back
_get_end(b) == BytesIO_seek(b, 0, 2).pos

\* the len property: bytes from the cursor to the end
CustomBytesIO_len(b) == _get_end(b) - b.pos

\* ------------------------------------------------------------- FileWrapper
\* os.fstat(fileno).st_size of an open file
fstat_size(fd) == Len(fd.data)

\* (mutant) the len property forgets the handle's position
FileWrapper_len_ignores_tell(w) == w.total

\* the len property
FileWrapper_len(w) == w.total - w.pos

\* --------------------------------------------------------------- total_len
\* (mutant) an object of unknown size counts as empty instead of raising
total_len_unknown_is_empty(o) ==
    CASE o.kind \in {"bytes", "str", "tuple"} -> Len(o.data)
      [] o.kind = "Part" -> o.len
      [] o.kind = "CustomBytesIO" -> CustomBytesIO_len(o)
      [] o.kind = "FileWrapper" -> FileWrapper_len(o)
      [] o.kind \in {"file", "flaky_file"} -> fstat_size(o)
      [] o.kind = "BytesIO" -> Len(o.data)
      [] OTHER -> 0

\* -1 stands for raise ValueError("Unable to compute size", o)
total_len(o) ==
    CASE o.kind \in {"bytes", "str", "tuple"} -> Len(o.data)
      [] o.kind = "Part" -> o.len
      [] o.kind = "CustomBytesIO" -> CustomBytesIO_len(o)
      [] o.kind = "FileWrapper" -> FileWrapper_len(o)
      [] o.kind \in {"file", "flaky_file"} -> fstat_size(o)
      [] o.kind = "BytesIO" -> Len(o.data)
      [] OTHER -> -1

FileWrapper(file_object) ==
    [kind |-> "FileWrapper", data |-> file_object.data, pos |-> file_object.pos,
     total |-> total_len(file_object), fd |-> file_object.kind]

\* read(length) is self.fd.read(length); a failing read raises OSError and
\* leaves the handle where it was
FileWrapper_read(w, length) ==
    IF w.fd = "flaky_file"
    THEN [obj |-> [w EXCEPT !.fd = "file"], ret |-> <<>>, exc |-> "OSError"]
    ELSE LET r == BytesIO_read(w, length)
         IN [obj |-> r.obj, ret |-> r.ret, exc |-> "none"]

\* ------------------------------------------------------------------- reset
\* the context manager: remember the position and seek to the end; on a
\* normal exit seek back. It has no try/finally: when the body raises, the
\* position stays where the body left it.
reset_enter(b) == BytesIO_seek(b, 0, 2)
reset_exit(b, original_position) == BytesIO_seek(b, original_position, 0)

\* (mutant) the cursor is not put back after the write
append_stays_at_end(b, bytes) ==
    BytesIO_write(reset_enter(b), bytes)

\* _CustomBytesIO.append(bytes)
append(b, bytes) ==
    LET original_position == b.pos
        w == BytesIO_write(reset_enter(b), bytes)
    IN IF w.exc # "none"
       THEN w
       ELSE [buf |-> reset_exit(w.buf, original_position),
             ret |-> w.ret, exc |-> "none"]

\* _CustomBytesIO.smart_truncate()
smart_truncate(b) ==
    LET to_be_read == total_len(b)
        already_read == _get_end(b) - to_be_read
        old_bytes == BytesIO_read(b, -1).ret
        cut == BytesIO_truncate(BytesIO_seek(b, 0, 0))
        w == BytesIO_write(cut, Bytes(old_bytes))
    IN IF already_read >= to_be_read
       THEN BytesIO_seek(w.buf, 0, 0)
       ELSE b

\* ------------------------------------------------------------- coerce_data
coerce_data(data, encoding) ==
    CASE data.kind = "CustomBytesIO" -> data
      [] data.kind = "BytesIO" -> CustomBytesIO(Bytes(data.data), encoding)
      [] data.kind \in {"str", "bytes"} -> CustomBytesIO(data, encoding)
      [] data.kind \in {"file", "flaky_file", "rawio"} -> FileWrapper(data)
      [] OTHER -> data

\* -------------------------------------------------------------------- Part
\* the body's read(): io.BytesIO.read or FileWrapper.read (fd.read)
body_read(body, amount) ==
    IF body.kind = "FileWrapper"
    THEN FileWrapper_read(body, amount)
    ELSE LET r == BytesIO_read(body, amount)
         IN [obj |-> r.obj, ret |-> r.ret, exc |-> "none"]

\* Part.__init__(headers, body)
Part__init__(headers, body) ==
    [kind |-> "Part", headers |-> headers, body |-> body,
     headers_unread |-> TRUE, len |-> Len(headers) + total_len(body)]

\* Part.from_field(field, encoding); field.headers is field.render_headers()
from_field(field, encoding) ==
    Part__init__(encode_with(field.headers, encoding).data,
                 coerce_data(field.data, encoding))

bytes_left_to_write(part) ==
    LET to_read == IF part.headers_unread THEN Len(part.headers) ELSE 0
    IN (to_read + total_len(part.body)) > 0

\* the while loop of Part.write_to; body.read is evaluated before append is
\* entered, so an error of the body source leaves the buffer untouched
RECURSIVE write_to_loop(_, _, _, _)
write_to_loop(part, buffer, size, written) ==
    IF total_len(part.body) > 0 /\ (size = -1 \/ written < size)
    THEN LET amount_to_read == IF size # -1 THEN size - written ELSE size
             r == body_read(part.body, amount_to_read)
             a == append(buffer, Bytes(r.ret))
         IN IF r.exc # "none"
            THEN [part |-> [part EXCEPT !.body = r.obj], buffer |-> buffer,
                  ret |-> written, exc |-> r.exc]
            ELSE write_to_loop([part EXCEPT !.body = r.obj], a.buf, size,
                               written + a.ret)
    ELSE [part |-> part, buffer |-> buffer, ret |-> written, exc |-> "none"]

\* (mutant) the headers are not marked as sent
write_to_resends_headers(part, buffer, size) ==
    IF part.headers_unread
    THEN LET a == append(buffer, Bytes(part.headers))
         IN write_to_loop(part, a.buf, size, a.ret)
    ELSE write_to_loop(part, buffer, size, 0)

\* Part.write_to(buffer, size)
write_to(part, buffer, size) ==
    IF part.headers_unread
    THEN LET a == append(buffer, Bytes(part.headers))
         IN write_to_loop([part EXCEPT !.headers_unread = FALSE], a.buf, size,
                          a.ret)
    ELSE write_to_loop(part, buffer, size, 0)

\* -------------------------------------------------------- MultipartEncoder
\* An encoder is a record; current_part is an index into parts (0 is None),
\* iter_parts is the index of the next Part the iterator yields, and
\* len = 0 stands for None ("self._len or ..." treats both alike).
None == [kind |-> "NoneType"]

\* _write(bytes_to_write)
_write(enc, bytes_to_write) ==
    LET a == append(enc.buffer, bytes_to_write)
    IN [enc |-> [enc EXCEPT !.buffer = a.buf], ret |-> a.ret, exc |-> a.exc]

\* _write_boundary()
_write_boundary(enc) == _write(enc, enc.encoded_boundary)

\* _write_closing_boundary(): overwrite the last two bytes with "--\r\n"
_write_closing_boundary(enc) ==
    LET original_position == enc.buffer.pos
        at == BytesIO_seek(reset_enter(enc.buffer), -2, 2)
        w == BytesIO_write(at, Bytes(<<DASH, DASH, CR, LF>>))
    IN [enc |-> [enc EXCEPT !.buffer = reset_exit(w.buf, original_position)],
        ret |-> 2, exc |-> "none"]

\* _next_part(): next(self._iter_parts), or None at StopIteration
_next_part(enc) ==
    IF enc.iter_parts <= Len(enc.parts)
    THEN [enc |-> [enc EXCEPT !.current_part = enc.iter_parts,
                              !.iter_parts = enc.iter_parts + 1],
          ret |-> enc.iter_parts]
    ELSE [enc |-> enc, ret |-> 0]

\* _calculate_length()
RECURSIVE sum_total_len(_)
sum_total_len(ps) ==
    IF ps = <<>> THEN 0 ELSE total_len(Head(ps)) + sum_total_len(Tail(ps))

\* (mutant) one boundary overhead per Part, none for the closing delimiter
_calculate_length_one_short(enc) ==
    LET boundarycrnl_len == Len(enc.boundary) + Len(<<CR, LF, CR, LF>>)
        l == sum_total_len(enc.parts) + boundarycrnl_len * Len(enc.parts)
    IN [enc |-> [enc EXCEPT !.len = l], ret |-> l]

_calculate_length(enc) ==
    LET boundarycrnl_len == Len(enc.boundary) + Len(<<CR, LF, CR, LF>>)
        l == sum_total_len(enc.parts) + boundarycrnl_len * (Len(enc.parts) + 1)
    IN [enc |-> [enc EXCEPT !.len = l], ret |-> l]

\* __len__(): self._len or self._calculate_length()
__len__(enc) ==
    IF enc.len # 0 THEN [enc |-> enc, ret |-> enc.len] ELSE _calculate_length(enc)

\* _calculate_load_amount(read_size)
_calculate_load_amount(enc, read_size) ==
    LET amount == read_size - total_len(enc.buffer)
    IN IF amount > 0 THEN amount ELSE 0

\* the while loop of _load; part is the local variable (an index, 0 = None).
\* The result also records the buffer as _write_closing_boundary found it
\* (closing, None when it was not called).
RECURSIVE load_loop(_, _, _)
load_loop(enc, part, amount) ==
    IF ~(amount = -1 \/ amount > 0)
    THEN [enc |-> enc, exc |-> "none", closing |-> None]
    ELSE
      LET exhausted == part # 0 /\ ~bytes_left_to_write(enc.parts[part])
          w1 == _write(enc, Bytes(CRLF))
          w2 == _write_boundary(w1.enc)
          np == _next_part(w2.enc)
          \* after the "if part and not part.bytes_left_to_write()" block
          enc1 == IF exhausted THEN np.enc ELSE enc
          part1 == IF exhausted THEN np.ret ELSE part
          written1 == IF exhausted THEN w1.ret + w2.ret ELSE 0
          wc == _write_closing_boundary(enc1)
          wt == write_to(enc1.parts[part1], enc1.buffer, amount)
          enc2 == [enc1 EXCEPT !.parts[part1] = wt.part, !.buffer = wt.buffer]
          written2 == written1 + wt.ret
      IN IF exhausted /\ w2.exc # "none"
         THEN [enc |-> w2.enc, exc |-> w2.exc, closing |-> None]
         ELSE IF part1 = 0
         THEN [enc |-> [wc.enc EXCEPT !.finished = TRUE], exc |-> "none",
               closing |-> enc1.buffer]
         ELSE IF wt.exc # "none"
         THEN [enc |-> enc2, exc |-> wt.exc, closing |-> None]
         ELSE load_loop(enc2, part1,
                        IF amount # -1 THEN amount - written2 ELSE amount)

\* _load(amount)
_load(enc, amount) ==
    LET enc0 == [enc EXCEPT !.buffer = smart_truncate(enc.buffer)]
        np == _next_part(enc0)
    IN IF enc0.current_part # 0
       THEN load_loop(enc0, enc0.current_part, amount)
       ELSE load_loop(np.enc, np.ret, amount)

\* read(size)
read(enc, size) ==
    LET bytes_to_load == IF size # -1 THEN _calculate_load_amount(enc, size)
                                      ELSE size
        l == _load(enc, bytes_to_load)
        r == BytesIO_read(IF enc.finished THEN enc.buffer ELSE l.enc.buffer, size)
    IN IF enc.finished
       THEN [enc |-> [enc EXCEPT !.buffer = r.obj], ret |-> r.ret, exc |-> "none"]
       ELSE IF l.exc # "none"
       THEN [enc |-> l.enc, ret |-> <<>>, exc |-> l.exc]
       ELSE [enc |-> [l.enc EXCEPT !.buffer = r.obj], ret |-> r.ret,
             exc |-> "none"]

\* __next__(): StopIteration once finished, else one read of the chunk size
__next__(enc) ==
    IF enc.finished
    THEN [enc |-> enc, ret |-> <<>>, exc |-> "StopIteration"]
    ELSE read(enc, enc.iter_read_size)

\* _prepare_parts(): one Part per field, in the fields' order
_prepare_parts(fields, encoding) ==
    [i \in 1..Len(fields) |-> from_field(fields[i], encoding)]

\* MultipartEncoder.__init__(fields, boundary, encoding, default_iter_size)
MultipartEncoder__init__(fields, boundary, encoding, iter_size) ==
    LET b == <<DASH, DASH>> \o boundary
        parts == _prepare_parts(fields, encoding)
        self == [kind |-> "MultipartEncoder",
                 boundary_value |-> boundary,
                 boundary |-> b,
                 enc |-> encoding,
                 \* the trailing comma of line 219 makes this a 1-tuple
                 encoded_boundary |->
                     Obj("tuple", <<encode_with(Str(b \o CRLF), encoding).data>>, 0, 0),
                 fields |-> fields,
                 iter_read_size |-> iter_size,
                 finished |-> FALSE,
                 current_part |-> 0,
                 len |-> 0,
                 buffer |-> CustomBytesIO(Bytes(<<>>), encoding),
                 parts |-> parts,
                 iter_parts |-> 1]
        \* total_len raised ValueError in Part.__init__ or FileWrapper.__init__
        unsized == \E i \in 1..Len(parts) : total_len(parts[i].body) < 0
    IN IF unsized
       THEN [enc |-> self, exc |-> "ValueError"]
       ELSE _write_boundary(self)

\* ------------------------------------------------------------------ inputs
\* the explicit boundary argument: "B"
Boundary == <<66>>

\* field.render_headers() of a field: a header block ending in CRLF
HeaderBlocks == {Str(CRLF), Str(<<72, CR, LF>>)}

\* a body of n bytes: "a", "ab", ...
Content(n) == [j \in 1..n |-> 96 + j]

\* text of n characters, each non-ASCII (two bytes in UTF-8)
Text(n) == [j \in 1..n |-> 233]

\* field.data: bytes, text, or an open file handle already advanced by k
DataValues ==
    {Bytes(Content(n)) : n \in 0..MaxBody}
    \cup {Str(Text(n)) : n \in 1..MaxBody}
    \cup {Obj("file", Content(n), k, 0) : n \in 0..MaxBody, k \in 0..MaxBody}

FieldValues ==
    {[headers |-> h, data |-> d] :
        h \in HeaderBlocks,
        d \in {x \in DataValues : x.pos <= Len(x.data)}}

FieldSets ==
    UNION {[1..n -> FieldValues] : n \in 0..MaxParts}

\* field.data that gives trouble: a handle whose next read fails, and
\* readable objects whose size total_len cannot find
FaultyDataValues ==
    {Obj("flaky_file", Content(n), k, 0) : n \in 1..MaxBody, k \in 0..MaxBody}
    \cup {Obj("reader", Content(n), 0, 0) : n \in 1..MaxBody}
    \cup {Obj("rawio", Content(n), 0, 0) : n \in 1..MaxBody}

AnyFieldValues ==
    {[headers |-> h, data |-> d] :
        h \in HeaderBlocks,
        d \in {x \in DataValues \cup FaultyDataValues : x.pos <= Len(x.data)}}

AnyFieldSets ==
    UNION {[1..n -> AnyFieldValues] : n \in 0..MaxParts}

ReadSizes == {-1} \cup (0..MaxSize)

\* what append is called with: bytes, or (as _write_boundary does) a tuple
AppendValues ==
    {Bytes(Content(n)) : n \in 0..2} \cup {Obj("tuple", <<Content(1)>>, 0, 0)}

\* ------------------------------------------------------------------- state
VARIABLES
    fields,    \* the field collection handed to the encoder and to Part.from_field
    pc,        \* "start" before MultipartEncoder(fields, ...) is called, then "called"
    encoder,   \* the MultipartEncoder the call returned, None if it raised
    exc,       \* the exception the constructor call raised, "none" if none
    hpc,       \* "fields" before the Parts are built directly, then "parts"
    parts,     \* the Parts built by Part.from_field, in field order
    sink,      \* the _CustomBytesIO the Parts are written to
    emitted,   \* history: per Part, the body bytes write_to appended so far
    called,    \* history: the Parts write_to has been called on
    lastcall   \* history: the last direct call, its arguments and its result

vars == <<fields, pc, encoder, exc, hpc, parts, sink, emitted, called, lastcall>>

InitFrom(field_sets) ==
    /\ fields \in field_sets
    /\ pc = "start"
    /\ encoder = None
    /\ exc = "none"
    /\ hpc = "fields"
    /\ parts = <<>>
    /\ sink = CustomBytesIO(Bytes(<<>>), "utf-8")
    /\ emitted = <<>>
    /\ called = {}
    /\ lastcall = [op |-> "none"]

Init == InitFrom(FieldSets)

\* encoder = MultipartEncoder(fields, boundary="B")
NewEncoder ==
    /\ pc = "start"
    /\ LET r == MultipartEncoder__init__(fields, Boundary, "utf-8", default_iter_size)
       IN /\ exc' = r.exc
          /\ encoder' = IF r.exc = "none" THEN r.enc ELSE None
    /\ pc' = "called"
    /\ UNCHANGED <<fields, hpc, parts, sink, emitted, called, lastcall>>

\* parts = [Part.from_field(f, "utf-8") for f in fields]
PrepareParts ==
    /\ hpc = "fields"
    /\ parts' = _prepare_parts(fields, "utf-8")
    /\ emitted' = [i \in 1..Len(fields) |-> <<>>]
    /\ hpc' = "parts"
    /\ UNCHANGED <<fields, pc, encoder, exc, sink, called, lastcall>>

\* parts[i].write_to(sink, size); as in the load loop, a Part is written only
\* once every Part before it has no bytes left
WriteTo(i, size) ==
    /\ hpc = "parts"
    /\ \A j \in 1..(i - 1) : ~bytes_left_to_write(parts[j])
    /\ LET r == write_to(parts[i], sink, size)
           appended == SubSeq(r.buffer.data, Len(sink.data) + 1, Len(r.buffer.data))
           body_bytes == IF parts[i].headers_unread
                         THEN SubSeq(appended, Len(parts[i].headers) + 1, Len(appended))
                         ELSE appended
       IN /\ parts' = [parts EXCEPT ![i] = r.part]
          /\ sink' = r.buffer
          /\ emitted' = [emitted EXCEPT ![i] = @ \o body_bytes]
          /\ called' = called \cup {i}
          /\ lastcall' = [op |-> "write_to", part |-> i, size |-> size,
                      ret |-> r.ret, appended |-> appended,
                      first |-> i \notin called,
                      body_before |-> Len(emitted[i])]
    /\ UNCHANGED <<fields, pc, encoder, exc, hpc>>

\* MultipartEncoder._calculate_length over the Parts: the method reads only
\* self._boundary ("--B") and self._parts
CalculateLength ==
    /\ hpc = "parts"
    /\ LET self == [boundary |-> <<DASH, DASH>> \o Boundary, parts |-> parts,
                    len |-> 0]
       IN lastcall' = [op |-> "_calculate_length",
                       ret |-> _calculate_length(self).ret]
    /\ UNCHANGED <<fields, pc, encoder, exc, hpc, parts, sink, emitted, called>>

\* Constructing the encoder: the only step an encoder's caller can take,
\* since the constructor raises and hands back no object.
Next == NewEncoder

Spec == Init /\ [][Next]_vars

\* The same construction, over field sets that may hold failing or unsized
\* body sources.
AnyInit == InitFrom(AnyFieldSets)

AnySpec == AnyInit /\ [][Next]_vars

\* Using Part, FileWrapper and _CustomBytesIO directly: build the Parts of up
\* to MaxDirect fields and write them to one buffer, one Part after the
\* other, in any amounts; and compute the length of the stream over them.
PartInit == Init /\ Len(fields) <= MaxDirect

PartNext ==
    \/ PrepareParts
    \/ CalculateLength
    \/ \E i \in 1..Len(parts), size \in ReadSizes : WriteTo(i, size)

PartSpec == PartInit /\ [][PartNext]_vars

\* sink.append(v), with at most MaxStore bytes stored
SinkAppend(v) ==
    /\ Len(sink.data) + Len(v.data) <= MaxStore
    /\ LET r == append(sink, v)
       IN /\ sink' = r.buf
          /\ lastcall' = [op |-> "append", arg |-> v, ret |-> r.ret,
                          exc |-> r.exc, before |-> sink]
    /\ UNCHANGED <<fields, pc, encoder, exc, hpc, parts, emitted, called>>

\* sink.read(size)
SinkRead(size) ==
    /\ LET r == BytesIO_read(sink, size)
       IN /\ sink' = r.obj
          /\ lastcall' = [op |-> "read", size |-> size, ret |-> r.ret,
                          before |-> sink]
    /\ UNCHANGED <<fields, pc, encoder, exc, hpc, parts, emitted, called>>

\* sink.smart_truncate()
SinkSmartTruncate ==
    /\ sink' = smart_truncate(sink)
    /\ lastcall' = [op |-> "smart_truncate", before |-> sink]
    /\ UNCHANGED <<fields, pc, encoder, exc, hpc, parts, emitted, called>>

\* Using a _CustomBytesIO directly, as the encoder and its Parts do: append,
\* read and smart_truncate in any order.
BufInit == Init /\ fields = <<>>

BufNext ==
    \/ \E v \in AppendValues : SinkAppend(v)
    \/ \E size \in ReadSizes : SinkRead(size)
    \/ SinkSmartTruncate

BufSpec == BufInit /\ [][BufNext]_vars

\* ----------------------------------------------------- vocabulary of claims
\* the unread content of a buffer: storage[read_cursor:]
Unread(b) == SubSeq(b.data, b.pos + 1, Len(b.data))

\* "--B\r\n", "\r\n--B\r\n" and "\r\n--B--\r\n"
DelimiterLine == <<DASH, DASH>> \o Boundary \o CRLF
Separator == CRLF \o DelimiterLine
ClosingDelimiter == CRLF \o <<DASH, DASH>> \o Boundary \o <<DASH, DASH>> \o CRLF

\* the bytes a field's body contributes: its bytes, its text in UTF-8, or
\* the file's content from the handle's offset on
FieldBody(f) ==
    CASE f.data.kind = "str" -> str_encode(f.data.data)
      [] f.data.kind \in {"file", "flaky_file"} -> SubSeq(f.data.data, f.data.pos + 1, Len(f.data.data))
      [] OTHER -> f.data.data

FieldHeaders(f) == str_encode(f.headers.data)

\* the body of the whole field set as the wire format states it
RECURSIVE WireParts(_)
WireParts(fs) ==
    IF fs = <<>> THEN <<>>
    ELSE FieldHeaders(Head(fs)) \o FieldBody(Head(fs))
         \o (IF Tail(fs) = <<>> THEN <<>> ELSE Separator \o WireParts(Tail(fs)))

Wire(fs) == DelimiterLine \o WireParts(fs) \o ClosingDelimiter

\* the results of successive read(c) calls on enc, up to and including the
\* call that leaves it FINISHED with an empty buffer (or that raises)
RECURSIVE ReadTrace(_, _, _)
ReadTrace(enc, c, fuel) ==
    LET r == read(enc, c)
    IN IF fuel = 0 \/ r.exc # "none"
          \/ (r.enc.finished /\ total_len(r.enc.buffer) = 0)
       THEN <<r>>
       ELSE <<r>> \o ReadTrace(r.enc, c, fuel - 1)

RECURSIVE Returned(_)
Returned(trace) ==
    IF trace = <<>> THEN <<>> ELSE Head(trace).ret \o Returned(Tail(trace))

\* enough calls to drain any encoder of the model with chunks of one byte
Fuel(enc) == __len__(enc).ret + 2

ChunkSizes == 1..MaxSize

\* the encoder states a trace of reads passes through, the first included
States(enc, trace) == <<enc>> \o [k \in 1..Len(trace) |-> trace[k].enc]

\* Part i of enc is no longer as _prepare_parts built it
Touched(enc, i) == enc.parts[i] # _prepare_parts(enc.fields, enc.enc)[i]

\* the encoder as constructed with default_iter_size = c
WithIterSize(enc, c) == [enc EXCEPT !.iter_read_size = c]

\* the results of successive __next__() calls up to StopIteration
RECURSIVE NextTrace(_, _)
NextTrace(enc, fuel) ==
    LET r == __next__(enc)
    IN IF fuel = 0 \/ r.exc # "none" THEN <<r>>
       ELSE <<r>> \o NextTrace(r.enc, fuel - 1)

\* the constructor call has returned an encoder
Constructed == pc = "called" /\ exc = "none"

\* ------------------------------------------------------------------ claims
\* C1: for any field set, the length the encoder reports (__len__) equals the
\* number of bytes one read(-1) on the fresh encoder returns.
C1_LengthCorrect ==
    pc = "called" =>
        /\ Constructed
        /\ __len__(encoder).ret = Len(read(encoder, -1).ret)

\* C2: for any field set and any chunk size c >= 1, the successive read(c)
\* results up to exhaustion, concatenated, are the bytes of one read(-1) on
\* an equivalent fresh encoder.
C2_ChunkedEqualsSingleShot ==
    pc = "called" =>
        /\ Constructed
        /\ \A c \in ChunkSizes :
              Returned(ReadTrace(encoder, c, Fuel(encoder))) = read(encoder, -1).ret

\* C3: the drained stream is the delimiter line, each field's header block
\* and body in input order separated by CRLF + delimiter line, then the
\* closing delimiter; no Part is touched before every earlier Part is
\* exhausted.
C3_WireFormatAndOrder ==
    pc = "called" =>
        /\ Constructed
        /\ read(encoder, -1).ret = Wire(fields)
        /\ \A c \in ChunkSizes :
              LET st == States(encoder, ReadTrace(encoder, c, Fuel(encoder)))
              IN \A k \in 1..Len(st) :
                    \A i, j \in 1..Len(st[k].parts) :
                       (i < j /\ Touched(st[k], j))
                           => ~bytes_left_to_write(st[k].parts[i])

\* C4: iterating with chunk size c >= 1 gives one read(c) per step and stops
\* exactly when the encoder is FINISHED and the buffer is empty.
C4_IterationEndsEmpty ==
    pc = "called" =>
        /\ Constructed
        /\ \A c \in ChunkSizes :
              LET t == NextTrace(WithIterSize(encoder, c), Fuel(encoder))
                  last == t[Len(t)]
              IN /\ last.exc = "StopIteration"
                 /\ last.enc.finished
                 /\ total_len(last.enc.buffer) = 0
                 /\ \A k \in 1..(Len(t) - 1) :
                       t[k] = read(IF k = 1 THEN WithIterSize(encoder, c)
                                            ELSE t[k - 1].enc, c)

\* C5: read(n), n >= 0, returns at most n bytes, and exactly n whenever at
\* least n bytes of the body have not been returned yet.
C5_BoundedRead ==
    pc = "called" =>
        /\ Constructed
        /\ \A c \in ChunkSizes :
              LET t == ReadTrace(encoder, c, Fuel(encoder))
                  st == States(encoder, t)
                  total == Len(read(encoder, -1).ret)
              IN \A k \in 1..Len(st), n \in 0..MaxSize :
                    LET left == total - Len(Returned(SubSeq(t, 1, k - 1)))
                        r == read(st[k], n)
                    IN /\ r.exc = "none"
                       /\ Len(r.ret) <= n
                       /\ left >= n => Len(r.ret) = n

\* C6: once FINISHED with an empty buffer, a read of any size returns the
\* empty result, raises nothing, and leaves finished, the buffer and the
\* content length as they were.
C6_IdempotentExhaustion ==
    pc = "called" =>
        /\ Constructed
        /\ \A c \in ChunkSizes \cup {-1} :
              LET t == ReadTrace(encoder, c, Fuel(encoder))
                  e == t[Len(t)].enc
              IN /\ e.finished /\ total_len(e.buffer) = 0
                 /\ \A n \in ReadSizes :
                       LET r == read(e, n)
                       IN /\ r.exc = "none" /\ r.ret = <<>>
                          /\ r.enc.finished
                          /\ r.enc.buffer = e.buffer
                          /\ __len__(r.enc).ret = __len__(e).ret

\* C7: finished starts false, turns true once and stays true; after that a
\* read appends nothing and touches no Part: only the cursor moves.
C7_FinishedOnce ==
    pc = "called" =>
        /\ Constructed
        /\ ~encoder.finished
        /\ \A c \in ChunkSizes :
              LET st == States(encoder, ReadTrace(encoder, c, Fuel(encoder)))
              IN \A k \in 1..Len(st), n \in ReadSizes :
                    LET r == read(st[k], n)
                    IN st[k].finished =>
                          /\ r.enc.finished
                          /\ r.enc.buffer.data = st[k].buffer.data
                          /\ r.enc.parts = st[k].parts
                          /\ r.enc.current_part = st[k].current_part
                          /\ r.enc.iter_parts = st[k].iter_parts

\* C8: __len__ gives the same value whenever it is asked: before any read,
\* between reads, after exhaustion, and whether or not it was first computed
\* before reading began.
C8_StableLength ==
    pc = "called" =>
        /\ Constructed
        /\ \A c \in ChunkSizes :
              LET cached == __len__(encoder)
                  lazy == States(encoder, ReadTrace(encoder, c, Fuel(encoder)))
                  eager == States(cached.enc, ReadTrace(cached.enc, c, Fuel(encoder)))
              IN /\ \A k \in 1..Len(lazy) : __len__(lazy[k]).ret = cached.ret
                 /\ \A k \in 1..Len(eager) : __len__(eager[k]).ret = cached.ret

\* C9: right after construction the encoder is not FINISHED, no Part has
\* emitted a byte, and the buffer's unread content is the first delimiter
\* line "--B\r\n".
C9_InitialState ==
    pc = "called" =>
        /\ Constructed
        /\ ~encoder.finished
        /\ \A i \in 1..Len(encoder.parts) : ~Touched(encoder, i)
        /\ Len(encoder.parts) = Len(fields)
        /\ Unread(encoder.buffer) = DelimiterLine

\* C10: for a body given as an open file handle, the source's remaining
\* length is the file size minus the handle's current offset, when the Part
\* is built (a handle advanced by k adds size - k to the Part's length) and
\* after every read from it, and the bytes emitted are those from offset k on.
C10_FileRemainder ==
    hpc = "parts" =>
        \A i \in 1..Len(parts) :
            fields[i].data.kind = "file" =>
                LET content == fields[i].data.data
                    k == fields[i].data.pos
                    offset == parts[i].body.pos
                IN /\ parts[i].body.kind = "FileWrapper"
                   /\ total_len(parts[i].body) = Len(content) - offset
                   /\ parts[i].len = Len(parts[i].headers) + Len(content) - k
                   /\ emitted[i] = SubSeq(content, k + 1, offset)
                   /\ ~bytes_left_to_write(parts[i])
                         => emitted[i] = SubSeq(content, k + 1, Len(content))

\* a handle advanced before the Part was built, then read further by write_to
C10_Witness ==
    /\ hpc = "parts"
    /\ \E i \in 1..Len(parts) :
          /\ fields[i].data.kind = "file"
          /\ fields[i].data.pos > 0
          /\ parts[i].body.pos > fields[i].data.pos
          /\ emitted[i] # <<>>

\* a is a prefix of b
IsPrefix(a, b) == Len(a) <= Len(b) /\ SubSeq(b, 1, Len(a)) = a

\* the results of successive read(c) calls where the caller carries on after
\* an error of a body source
RECURSIVE RetryTrace(_, _, _)
RetryTrace(enc, c, fuel) ==
    LET r == read(enc, c)
    IN IF fuel = 0 \/ r.exc \notin {"none", "OSError"}
          \/ (r.exc = "none" /\ r.enc.finished /\ total_len(r.enc.buffer) = 0)
       THEN <<r>>
       ELSE <<r>> \o RetryTrace(r.enc, c, fuel - 1)

\* some field's body is a handle whose read fails with bytes left to read
HasFlaky(fs) ==
    \E i \in 1..Len(fs) :
        fs[i].data.kind = "flaky_file" /\ fs[i].data.pos < Len(fs[i].data.data)

\* C11: when a body source raises during read(n), the caller gets that error
\* (OSError), the encoder is not FINISHED, the unread bytes the buffer held
\* before the call are still its first unread bytes (bytes appended during
\* the call follow them), and the reads that follow complete the stream
\* with no byte lost or duplicated.
C11_BodySourceFailure ==
    pc = "called" =>
        /\ Constructed
        /\ \A c \in ChunkSizes :
              LET trace == RetryTrace(encoder, c, Fuel(encoder) + Len(fields))
                  st == States(encoder, trace)
              IN HasFlaky(fields) =>
                    /\ \E k \in 1..Len(trace) : trace[k].exc = "OSError"
                    /\ \A k \in 1..Len(trace) :
                          trace[k].exc # "none" =>
                              /\ trace[k].exc = "OSError"
                              /\ trace[k].ret = <<>>
                              /\ ~st[k + 1].finished
                              /\ IsPrefix(Unread(st[k].buffer),
                                          Unread(st[k + 1].buffer))
                    /\ Returned(trace) = Wire(fields)

\* some field's body is a readable object with no __len__, no len, no
\* getvalue, and no fileno (reader) or one that raises UnsupportedOperation
\* (rawio)
HasUnsized(fs) == \E i \in 1..Len(fs) : fs[i].data.kind \in {"reader", "rawio"}

\* C12: constructing an encoder over a field set with such a body raises
\* ValueError ("Unable to compute size") from the construction of its Part,
\* and the caller gets no encoder.
C12_SizeUnavailable ==
    (pc = "called" /\ HasUnsized(fields)) =>
        /\ exc = "ValueError"
        /\ encoder = None

\* the call was made with a sized field first and an unsized one after it
C12_Witness ==
    /\ pc = "called"
    /\ Len(fields) = 2
    /\ fields[1].data.kind = "bytes"
    /\ fields[2].data.kind \in {"reader", "rawio"}
    /\ exc = "ValueError"

\* one read(c1), then read(c2) up to exhaustion
MixedTrace(enc, c1, c2, fuel) ==
    LET r == read(enc, c1)
    IN IF r.exc # "none" THEN <<r>> ELSE <<r>> \o ReadTrace(r.enc, c2, fuel)

\* the buffer as _write_closing_boundary finds it in the call read(enc, size)
ClosingAt(enc, size) ==
    IF enc.finished THEN None
    ELSE _load(enc, IF size # -1 THEN _calculate_load_amount(enc, size)
                                 ELSE size).closing

\* C13: whenever the load loop writes the closing delimiter, for any field
\* set (the empty one included) and any reads before, the last two bytes of
\* the buffer's storage are a CRLF that has not been consumed, and the
\* overwrite leaves the storage ending in "--B--\r\n".
C13_ClosingOverCRLF ==
    pc = "called" =>
        /\ Constructed
        /\ \A c1 \in ReadSizes, c2 \in ChunkSizes \cup {-1} :
              LET trace == MixedTrace(encoder, c1, c2, Fuel(encoder))
                  st == States(encoder, trace)
                  tail == <<DASH, DASH>> \o Boundary \o <<DASH, DASH>> \o CRLF
              IN \A k \in 1..Len(trace) :
                    LET b == ClosingAt(st[k], IF k = 1 THEN c1 ELSE c2)
                        n == Len(b.data)
                        after == st[k + 1].buffer.data
                    IN b # None =>
                          /\ n >= 2
                          /\ SubSeq(b.data, n - 1, n) = CRLF
                          /\ b.pos <= n - 2
                          /\ Len(after) >= Len(tail)
                          /\ SubSeq(after, Len(after) - Len(tail) + 1, Len(after))
                                = tail

\* C14: from any state reached by reads in which the encoder is not
\* FINISHED, read(-1) leaves every Part without bytes to write, returns all
\* the bytes of the body that earlier reads have not returned, and leaves
\* the encoder FINISHED with nothing unread in the buffer.
C14_UnboundedRead ==
    pc = "called" =>
        /\ Constructed
        /\ \A c1 \in ReadSizes, c2 \in ChunkSizes :
              LET trace == MixedTrace(encoder, c1, c2, Fuel(encoder))
                  st == States(encoder, trace)
                  body == read(encoder, -1).ret
              IN \A k \in 1..Len(st) :
                    ~st[k].finished =>
                        LET r == read(st[k], -1)
                        IN /\ r.exc = "none"
                           /\ r.enc.finished
                           /\ Unread(r.enc.buffer) = <<>>
                           /\ \A i \in 1..Len(r.enc.parts) :
                                 ~bytes_left_to_write(r.enc.parts[i])
                           /\ Returned(SubSeq(trace, 1, k - 1)) \o r.ret = body

Max(a, b) == IF a > b THEN a ELSE b

\* C15: the amount to load for read(n) is max(0, n - unread), and when the
\* buffer of an encoder that is not FINISHED holds at least n unread bytes,
\* read(n) appends nothing to the buffer, reads from no body source, changes
\* no Part, leaves finished false and returns the first n unread bytes.
C15_SurplusFirst ==
    pc = "called" =>
        /\ Constructed
        /\ \A c1 \in ReadSizes, c2 \in ChunkSizes :
              LET trace == MixedTrace(encoder, c1, c2, Fuel(encoder))
                  st == States(encoder, trace)
              IN \A k \in 1..Len(st), n \in 0..MaxSize :
                    LET unread == Unread(st[k].buffer)
                        r == read(st[k], n)
                    IN /\ _calculate_load_amount(st[k], n)
                            = Max(0, n - Len(unread))
                       /\ (~st[k].finished /\ Len(unread) >= n) =>
                             /\ r.exc = "none"
                             /\ r.ret = SubSeq(unread, 1, n)
                             /\ Unread(r.enc.buffer)
                                   = SubSeq(unread, n + 1, Len(unread))
                             /\ r.enc.parts = st[k].parts
                             /\ ~r.enc.finished

\* C16: a call parts[i].write_to(sink, b) with b >= 1 appends the header
\* block whole and first if it is the first call on that Part and no header
\* byte otherwise, then body bytes in the body's order; it returns the
\* number of bytes it appended, which is at most b plus the header size; and
\* when it returns either the body is exhausted or that number has reached b.
C16_WriteToBudget ==
    (lastcall.op = "write_to" /\ lastcall.size >= 1) =>
        LET part == parts[lastcall.part]
            headers == IF lastcall.first THEN part.headers ELSE <<>>
            body == FieldBody(fields[lastcall.part])
            n == Len(lastcall.appended) - Len(headers)
        IN /\ IsPrefix(headers, lastcall.appended)
           /\ lastcall.body_before + n <= Len(body)
           /\ SubSeq(lastcall.appended, Len(headers) + 1, Len(lastcall.appended))
                 = SubSeq(body, lastcall.body_before + 1, lastcall.body_before + n)
           /\ lastcall.ret = Len(lastcall.appended)
           /\ lastcall.ret <= lastcall.size + Len(part.headers)
           /\ ~lastcall.first => lastcall.ret <= lastcall.size
           /\ total_len(part.body) = 0 \/ lastcall.ret >= lastcall.size

\* a later call on a Part whose headers and first body bytes are already
\* sent: it stopped at its budget with body bytes left
C16_Witness ==
    /\ lastcall.op = "write_to" /\ lastcall.size >= 1
    /\ ~lastcall.first
    /\ lastcall.body_before >= 1
    /\ lastcall.ret = lastcall.size
    /\ total_len(parts[lastcall.part].body) > 0

\* _load and read of an encoder with compaction disabled: as _load and read,
\* without the call of smart_truncate
LoadPlain(enc, amount) ==
    LET np == _next_part(enc)
    IN IF enc.current_part # 0
       THEN load_loop(enc, enc.current_part, amount)
       ELSE load_loop(np.enc, np.ret, amount)

ReadPlain(enc, size) ==
    LET bytes_to_load == IF size # -1 THEN _calculate_load_amount(enc, size)
                                      ELSE size
        l == LoadPlain(enc, bytes_to_load)
        r == BytesIO_read(IF enc.finished THEN enc.buffer ELSE l.enc.buffer, size)
    IN IF enc.finished
       THEN [enc |-> [enc EXCEPT !.buffer = r.obj], ret |-> r.ret, exc |-> "none"]
       ELSE IF l.exc # "none"
       THEN [enc |-> l.enc, ret |-> <<>>, exc |-> l.exc]
       ELSE [enc |-> [l.enc EXCEPT !.buffer = r.obj], ret |-> r.ret,
             exc |-> "none"]

\* the results of ReadPlain for the given sizes, in order
RECURSIVE PlainReads(_, _)
PlainReads(enc, sizes) ==
    IF sizes = <<>> THEN <<>>
    ELSE LET r == ReadPlain(enc, Head(sizes))
         IN <<r>> \o PlainReads(r.enc, Tail(sizes))

\* C17: smart_truncate leaves the unread bytes of the buffer as they are, in
\* their order, and where it compacts the cursor is 0 and nothing but the
\* unread bytes is stored; and for every field set and sequence of reads
\* each read returns the bytes the same read returns with compaction
\* disabled.
C17_CompactionInvisible ==
    pc = "called" =>
        /\ Constructed
        /\ \A c1 \in ReadSizes, c2 \in ChunkSizes \cup {-1} :
              LET trace == MixedTrace(encoder, c1, c2, Fuel(encoder))
                  st == States(encoder, trace)
                  sizes == [k \in 1..Len(trace) |-> IF k = 1 THEN c1 ELSE c2]
                  plain == PlainReads(encoder, sizes)
              IN /\ \A k \in 1..Len(st) :
                       LET b == st[k].buffer
                           t == smart_truncate(b)
                       IN /\ Unread(t) = Unread(b)
                          /\ t # b => (t.pos = 0 /\ t.data = Unread(b))
                 /\ \A k \in 1..Len(trace) : plain[k].ret = trace[k].ret

\* C18: the cursor of the buffer is always between 0 and the length of its
\* storage; and an append(bytes) that returns has written the bytes after
\* everything stored before, returned their number and left the cursor where
\* it was, so the unread content is the old unread content followed by the
\* appended bytes.
C18_AppendFrame ==
    /\ 0 <= sink.pos /\ sink.pos <= Len(sink.data)
    /\ (lastcall.op = "append" /\ lastcall.exc = "none") =>
          /\ sink.data = lastcall.before.data \o lastcall.arg.data
          /\ sink.pos = lastcall.before.pos
          /\ lastcall.ret = Len(lastcall.arg.data)
          /\ Unread(sink) = Unread(lastcall.before) \o lastcall.arg.data

\* bytes appended to a buffer that is partly read and partly unread
C18_Witness ==
    /\ lastcall.op = "append" /\ lastcall.exc = "none"
    /\ lastcall.arg.data # <<>>
    /\ lastcall.before.pos > 0
    /\ lastcall.before.pos < Len(lastcall.before.data)

\* the sum over the fields of header bytes + body length at construction
RECURSIVE PartLengths(_)
PartLengths(fs) ==
    IF fs = <<>> THEN 0
    ELSE Len(FieldHeaders(Head(fs))) + Len(FieldBody(Head(fs)))
         + PartLengths(Tail(fs))

\* C19 (as stated): for N parts the computed length is the sum over the
\* parts of (header bytes + body length at construction) plus
\* overhead_len x (N + 1), overhead_len being the length of the boundary
\* delimiter line "--B\r\n".
C19_LengthFormula_Stated ==
    lastcall.op = "_calculate_length" =>
        lastcall.ret = PartLengths(fields)
                         + Len(DelimiterLine) * (Len(fields) + 1)

\* C19 (amended): the same sum with overhead_len the length of "--B" plus 4,
\* that is the boundary delimiter line and one more CRLF.
C19_LengthFormula ==
    lastcall.op = "_calculate_length" =>
        lastcall.ret = PartLengths(fields)
                         + (Len(DelimiterLine) + Len(CRLF)) * (Len(fields) + 1)

\* the length computed over a Part that write_to has already drawn from
C19_Witness ==
    /\ lastcall.op = "_calculate_length"
    /\ Len(parts) >= 1
    /\ emitted[1] # <<>>

\* the length of the longest header block of a field set, 0 for the empty one
RECURSIVE LongestHeaders(_)
LongestHeaders(fs) ==
    IF fs = <<>> THEN 0
    ELSE Max(Len(FieldHeaders(Head(fs))), LongestHeaders(Tail(fs)))

\* C20: after any read(n) with n >= 0 has returned, whatever reads came
\* before, fewer unread bytes are left in the buffer than a CRLF, a boundary
\* delimiter line and the longest header block together, whatever the sizes
\* of the bodies.
C20_BoundedLookAhead ==
    pc = "called" =>
        /\ Constructed
        /\ \A c1 \in ReadSizes, c2 \in 0..MaxSize :
              LET trace == MixedTrace(encoder, c1, c2, Fuel(encoder))
                  st == States(encoder, trace)
              IN \A k \in 1..Len(trace) :
                    (IF k = 1 THEN c1 ELSE c2) # -1 =>
                        /\ trace[k].exc = "none"
                        /\ Len(Unread(st[k + 1].buffer))
                              < Len(CRLF) + Len(DelimiterLine)
                                  + LongestHeaders(fields)

\* the results of read(size) for the given sizes, in order, up to the first
\* call that raises
RECURSIVE Reads(_, _)
Reads(enc, sizes) ==
    IF sizes = <<>> THEN <<>>
    ELSE LET r == read(enc, Head(sizes))
         IN IF r.exc # "none" THEN <<r>>
            ELSE <<r>> \o Reads(r.enc, Tail(sizes))

\* the sequences of up to MaxReads read sizes, each n >= 0 or -1
SizeSequences == UNION {[1..n -> ReadSizes] : n \in 0..MaxReads}

\* C21: for any sequence of read calls of varying sizes (each n >= 0 or
\* -1), no call raises and after every call the bytes returned so far,
\* concatenated, are a prefix of what a single read(-1) on the fresh encoder
\* returns.
C21_PrefixUnderMixedReads ==
    pc = "called" =>
        /\ Constructed
        /\ LET body == read(encoder, -1).ret
           IN \A sizes \in SizeSequences :
                 LET trace == Reads(encoder, sizes)
                 IN /\ Len(trace) = Len(sizes)
                    /\ \A k \in 1..Len(trace) :
                          /\ trace[k].exc = "none"
                          /\ IsPrefix(Returned(SubSeq(trace, 1, k)), body)

====
